---- MODULE Spec2Model ----
(***************************************************************************)
(* ctxdata: a request-scoped key/value store carried by a context.         *)
(* Two implementations of the Data type are modelled:                      *)
(*   "map"  : src/data.go           map[string]pair + order, sync.RWMutex  *)
(*   "chan" : src/unnamed/part_001  []KeyVal held in a capacity-1 channel  *)
(* Keys are 1..n (0 is the empty string), values are 0..n (0 is the zero   *)
(* value: "" in data.go, nil in part_001).                                 *)
(***************************************************************************)
EXTENDS Integers, Sequences, FiniteSets, TLC

\* ---- bounds of the model ----
NumKeys == 3
MaxVal == 1
MaxSets == 4
ConcKeys == 2
ConcSets == 2
ValKeys == 2
ValSets == 2
SetsPerWriter == 2
WalkKeys == 2
SnapKeys == 2
GetAsKeys == 2
GetAsSets == 2
BothKeys == 2
BothSets == 3
MaxCtxs == 4
MaxDatas == 2
CtxKeys == 1
CtxSets == 2
SnapSets == 3
WalkSets == 3

\* ---- program constants ----
InitCap == 32
ChanCap == 1

Procs == {1, 2}
Keys == 1..NumKeys
Vals == 0..MaxVal
Zero == 0
NoProc == 0

VARIABLES
    impl,    \* which Data type the store is: "map" or "chan"
    data,    \* data.go: d.data, key -> pair
    order,   \* data.go: d.order
    mtx,     \* data.go: d.mtx, [w: writer or NoProc, r: set of readers]
    c,       \* part_001: d.c, the buffered channel (a sequence of slices)
    pc,      \* position of each caller
    op,      \* the call each caller is executing
    s,       \* part_001: the local s of the call each caller is executing
    ret,     \* the values the call returns
    log,     \* history: the Sets in the order they took effect
    seen,    \* history: Len(log) when the caller's read took place
    floor,   \* history: the number of Sets that had returned when the call began
    wkeys,   \* data.go: the slice of keys that Walk ranges over
    visited, \* history: the entries the visitor of Walk was called with, in order
    stack,   \* the Walk whose visitor made the call the caller is executing
    snap,    \* the snapshot each caller has kept from its last GetAll, GetAllMap or GetAllSlice
    ctxs,    \* the contexts made so far: the parent and the value under contextKey
    rcv,     \* the *Data the caller makes its calls on, and where it has it from
    sel,     \* which Data has its fields in data, order, mtx, c and its history in log
    heap,    \* the fields of every other Data
    owner    \* history: the Data of the innermost New a context was derived from

storeVars == <<impl, data, order, mtx, c>>
callVars == <<pc, op, s, ret>>
histVars == <<log, seen, floor>>
walkVars == <<wkeys, visited, stack>>
ctxVars == <<ctxs, rcv, sel, heap, owner>>
extVars == <<walkVars, snap, ctxVars>>
vars == <<impl, data, order, mtx, c, pc, op, s, ret, log, seen, floor,
          wkeys, visited, stack, snap, ctxs, rcv, sel, heap, owner>>

\* ---- values ----
EmptyMap == [x \in {} |-> Zero]
MapPut(m, k, v) == [x \in (DOMAIN m) \cup {k} |-> IF x = k THEN v ELSE m[x]]

pair(sv, iv) == [s |-> sv, i |-> iv]
KeyVal(k, v) == [Key |-> k, Val |-> v]
ZeroKeyVal == KeyVal(0, Zero)

\* A slice is its backing array (as long as its capacity) and its length.
Slice(a, n) == [arr |-> a, len |-> n]
NoSlice == Slice(<<>>, 0)
make(n, cp) == Slice([j \in 1..cp |-> ZeroKeyVal], n)

NoOp == [name |-> "none", d |-> FALSE, key |-> 0, val |-> Zero]
Op(nm, d, k, v) == [name |-> nm, d |-> d, key |-> k, val |-> v]

\* shared says that the slice that is returned has the backing array of the
\* slice of the Data.
NoRet == [err |-> "none", val |-> Zero, ok |-> FALSE, kvs |-> <<>>, m |-> EmptyMap, isnil |-> FALSE,
          shared |-> FALSE]
RetErr(e) == [NoRet EXCEPT !.err = e]
RetVal(v, e) == [NoRet EXCEPT !.err = e, !.val = v]
RetOk(v, b) == [NoRet EXCEPT !.err = "nil", !.val = v, !.ok = b]
RetSlice(q, nl) == [NoRet EXCEPT !.err = "nil", !.kvs = q, !.isnil = nl]
RetMap(f, nl) == [NoRet EXCEPT !.err = "nil", !.m = f, !.isnil = nl]

\* The number of Sets that have returned: a Set that took effect and still
\* holds the lock (or the slice) has not returned yet.
InSet(p) == pc[p] \in {"MapSet_incr", "MapSet_unlock", "ChanSet_send"}
Returned == Len(log) - Cardinality({p \in Procs : InSet(p)})

\* A snapshot in the hands of a caller: the slice or the map it got, and
\* whether the slice has the backing array of the slice of the Data.
NoSnap == [kind |-> "none", kvs |-> <<>>, m |-> EmptyMap, shared |-> FALSE]

\* A context: its parent (0 for context.Background(), which has none) and the
\* *Data it holds under contextKey (0 for a context that holds none, as
\* context.Background() and the contexts of context.WithCancel).
Background == [parent |-> 0, val |-> 0]
WithValue(parent, val) == [parent |-> parent, val |-> val]
WithCancel(parent) == [parent |-> parent, val |-> 0]

\* The receiver of the calls of the caller: d is the Data (0 for a nil
\* *Data), from says that the caller has it from From and not from New
\* itself.
Rcv(sid, from) == [d |-> sid, from |-> from]

\* ---- calls ----
\* The entry of a method on receiver d (d.d is FALSE for the nil pointer that
\* From returns on a context without a Data): a nil receiver returns nilret
\* at once, any other receiver goes on to label.
Enter(p, o, label, nilret) ==
    /\ pc[p] = "idle"
    /\ op' = [op EXCEPT ![p] = o]
    /\ floor' = [floor EXCEPT ![p] = Returned]
    /\ pc' = [pc EXCEPT ![p] = IF o.d THEN label ELSE "ret"]
    /\ ret' = [ret EXCEPT ![p] = IF o.d THEN NoRet ELSE nilret]
    /\ UNCHANGED <<storeVars, s, log, seen, extVars>>

\* The caller takes the returned values and is ready for its next call.
Return(p) ==
    /\ pc[p] = "ret"
    /\ pc' = [pc EXCEPT ![p] = "idle"]
    /\ op' = [op EXCEPT ![p] = NoOp]
    /\ ret' = [ret EXCEPT ![p] = NoRet]
    /\ seen' = [seen EXCEPT ![p] = 0]
    /\ floor' = [floor EXCEPT ![p] = 0]
    /\ UNCHANGED <<storeVars, s, log, extVars>>

\* ---- sync.RWMutex ----
Lock(p) ==
    /\ mtx.w = NoProc
    /\ mtx.r = {}
    /\ mtx' = [mtx EXCEPT !.w = p]

Unlock(p) ==
    /\ mtx.w = p
    /\ mtx' = [mtx EXCEPT !.w = NoProc]

\* RLock that does not wait for the writer.
RLock_nowait(p) ==
    /\ mtx' = [mtx EXCEPT !.r = @ \cup {p}]

RLock(p) ==
    /\ mtx.w = NoProc
    /\ mtx' = [mtx EXCEPT !.r = @ \cup {p}]

RUnlock(p) ==
    /\ p \in mtx.r
    /\ mtx' = [mtx EXCEPT !.r = @ \ {p}]

Goto(p, label) == pc' = [pc EXCEPT ![p] = label]

\* ---- src/data.go ----
\* Set that does nothing on a nil receiver and reports no error.
MapSet_call_noop(p, d, k, v) ==
    /\ impl = "map"
    /\ Enter(p, Op("Set", d, k, v), "MapSet_lock", RetErr("nil"))

\* Set: nil check
MapSet_call(p, d, k, v) ==
    /\ impl = "map"
    /\ Enter(p, Op("Set", d, k, v), "MapSet_lock", RetErr("ErrNilData"))

\* Set: d.mtx.Lock()
MapSet_lock(p) ==
    /\ pc[p] = "MapSet_lock"
    /\ Lock(p)
    /\ Goto(p, "MapSet_write")
    /\ UNCHANGED <<impl, data, order, c, op, s, ret, histVars, extVars>>

\* Set that gives a key the current d.order only when it is new to d.data.
MapSet_write_keep(p) ==
    /\ pc[p] = "MapSet_write"
    /\ data' = MapPut(data, op[p].key,
                      pair(op[p].val, IF op[p].key \in DOMAIN data THEN data[op[p].key].i ELSE order))
    /\ log' = Append(log, KeyVal(op[p].key, op[p].val))
    /\ Goto(p, "MapSet_incr")
    /\ UNCHANGED <<impl, order, mtx, c, op, s, ret, seen, floor, extVars>>

\* Set: d.data[key] = pair{value, d.order}
MapSet_write(p) ==
    /\ pc[p] = "MapSet_write"
    /\ data' = MapPut(data, op[p].key, pair(op[p].val, order))
    /\ log' = Append(log, KeyVal(op[p].key, op[p].val))
    /\ Goto(p, "MapSet_incr")
    /\ UNCHANGED <<impl, order, mtx, c, op, s, ret, seen, floor, extVars>>

\* Set that leaves d.order as it is.
MapSet_incr_skip(p) ==
    /\ pc[p] = "MapSet_incr"
    /\ Goto(p, "MapSet_unlock")
    /\ UNCHANGED <<impl, data, order, mtx, c, op, s, ret, histVars, extVars>>

\* Set: d.order++
MapSet_incr(p) ==
    /\ pc[p] = "MapSet_incr"
    /\ order' = order + 1
    /\ Goto(p, "MapSet_unlock")
    /\ UNCHANGED <<impl, data, mtx, c, op, s, ret, histVars, extVars>>

\* Set: return nil, and the deferred d.mtx.Unlock()
MapSet_unlock(p) ==
    /\ pc[p] = "MapSet_unlock"
    /\ Unlock(p)
    /\ ret' = [ret EXCEPT ![p] = RetErr("nil")]
    /\ Goto(p, "ret")
    /\ UNCHANGED <<impl, data, order, c, op, s, histVars, extVars>>

\* Get: nil check
MapGet_call(p, d, k) ==
    /\ impl = "map"
    /\ Enter(p, Op("Get", d, k, Zero), "MapGet_rlock", RetOk(Zero, FALSE))

\* Every read of data.go takes the read lock first: d.mtx.RLock()
MapRead_rlock(p) ==
    /\ pc[p] \in {"MapGet_rlock", "MapGetDefault_rlock", "MapGetAll_rlock", "MapGetAllSlice_rlock"}
    /\ RLock(p)
    /\ Goto(p, CASE pc[p] = "MapGet_rlock" -> "MapGet_read"
                 [] pc[p] = "MapGetDefault_rlock" -> "MapGetDefault_read"
                 [] pc[p] = "MapGetAll_rlock" -> "MapGetAll_read"
                 [] pc[p] = "MapGetAllSlice_rlock" -> "MapGetAllSlice_read")
    /\ UNCHANGED <<impl, data, order, c, op, s, ret, histVars, extVars>>

\* Every read of data.go returns through the deferred d.mtx.RUnlock()
MapRead_runlock(p) ==
    /\ pc[p] = "MapRead_runlock"
    /\ RUnlock(p)
    /\ Goto(p, "ret")
    /\ UNCHANGED <<impl, data, order, c, op, s, ret, histVars, extVars>>

Read(p, r) ==
    /\ ret' = [ret EXCEPT ![p] = r]
    /\ seen' = [seen EXCEPT ![p] = Len(log)]
    /\ Goto(p, "MapRead_runlock")
    /\ UNCHANGED <<storeVars, op, s, log, floor, extVars>>

\* Get that takes an empty value for a missing one: return p.s, p.s != ""
Get_nonempty(dt, key) ==
    IF key \in DOMAIN dt /\ dt[key].s # Zero THEN RetOk(dt[key].s, TRUE) ELSE RetOk(Zero, FALSE)

\* Get: p, ok := d.data[key]; return p.s, ok
Get(dt, key) ==
    IF key \in DOMAIN dt THEN RetOk(dt[key].s, TRUE) ELSE RetOk(Zero, FALSE)

\* Get that makes an entry with the zero value for a key it does not find.
MapGet_read_insert(p) ==
    /\ pc[p] = "MapGet_read"
    /\ data' = IF op[p].key \in DOMAIN data THEN data ELSE MapPut(data, op[p].key, pair(Zero, order))
    /\ ret' = [ret EXCEPT ![p] = Get(data, op[p].key)]
    /\ seen' = [seen EXCEPT ![p] = Len(log)]
    /\ Goto(p, "MapRead_runlock")
    /\ UNCHANGED <<impl, order, mtx, c, op, s, log, floor, extVars>>

MapGet_read(p) ==
    /\ pc[p] = "MapGet_read"
    /\ Read(p, Get(data, op[p].key))

\* GetDefault: nil check
MapGetDefault_call(p, d, k, dflt) ==
    /\ impl = "map"
    /\ Enter(p, Op("GetDefault", d, k, dflt), "MapGetDefault_rlock", RetVal(dflt, "nil"))

\* GetDefault that gives the default for an empty value too.
GetDefault_nonempty(dt, key, defaultValue) ==
    IF key \notin DOMAIN dt \/ dt[key].s = Zero
       THEN RetVal(defaultValue, "nil") ELSE RetVal(dt[key].s, "nil")

\* GetDefault: p, ok := d.data[key]; if !ok { return defaultValue }; return p.s
GetDefault(dt, key, defaultValue) ==
    IF key \notin DOMAIN dt THEN RetVal(defaultValue, "nil") ELSE RetVal(dt[key].s, "nil")

MapGetDefault_read(p) ==
    /\ pc[p] = "MapGetDefault_read"
    /\ Read(p, GetDefault(data, op[p].key, op[p].val))

\* GetAll: nil check
MapGetAll_call(p, d) ==
    /\ impl = "map"
    /\ Enter(p, Op("GetAll", d, 0, Zero), "MapGetAll_rlock", RetMap(EmptyMap, TRUE))

\* GetAll: result[k] = p.s for every k, p of d.data
GetAll(dt) == [k \in DOMAIN dt |-> dt[k].s]

MapGetAll_read(p) ==
    /\ pc[p] = "MapGetAll_read"
    /\ Read(p, RetMap(GetAll(data), FALSE))

\* GetAllSlice: nil check
MapGetAllSlice_call(p, d) ==
    /\ impl = "map"
    /\ Enter(p, Op("GetAllSlice", d, 0, Zero), "MapGetAllSlice_rlock", RetSlice(<<>>, TRUE))

\* The orders in which ranging over a map of these keys can produce them.
Orders(ks) == {q \in [1..Cardinality(ks) -> ks] : \A a, b \in DOMAIN q : a # b => q[a] # q[b]}

\* orderedKeys without the sort.Slice call: the keys in the order of the range.
orderedKeys_unsorted(dt) == Orders(DOMAIN dt)

\* orderedKeys with the comparison of the sort the other way round.
orderedKeys_desc(dt) ==
    {q \in Orders(DOMAIN dt) : \A a, b \in DOMAIN q : a < b => ~(dt[q[a]].i < dt[q[b]].i)}

\* orderedKeys: the keys of d.data sorted by pair.i with sort.Slice, whose
\* result has no element less than an element before it. The map is ranged
\* over in an unspecified order and sort.Slice is not stable, so keys with
\* equal i can come out in either order: every possible result is in the set.
orderedKeys(dt) ==
    {q \in Orders(DOMAIN dt) : \A a, b \in DOMAIN q : a < b => ~(dt[q[b]].i < dt[q[a]].i)}

\* GetAllSlice: result[i] = KeyValue{k, d.data[k].s} for i, k of orderedKeys
GetAllSlice(dt, keys) == [j \in DOMAIN keys |-> KeyVal(keys[j], dt[keys[j]].s)]

MapGetAllSlice_read(p) ==
    /\ pc[p] = "MapGetAllSlice_read"
    /\ \E keys \in orderedKeys(data) : Read(p, RetSlice(GetAllSlice(data, keys), FALSE))

\* ---- Walk ----
\* A call of the visitor: the key and the value it was called with, and what
\* it returned ("running" until it returns).
Visit(k, v, e) == [Key |-> k, Val |-> v, err |-> e]

\* The frame of a Walk whose visitor is making a call of its own.
Frame(l, o) == [pc |-> l, op |-> o]

\* Walk that does nothing on a nil receiver and reports no error.
MapWalk_call_noop(p, d) ==
    /\ impl = "map"
    /\ Enter(p, Op("Walk", d, 0, Zero), "MapWalk_rlock", RetErr("nil"))

\* Walk: nil check
MapWalk_call(p, d) ==
    /\ impl = "map"
    /\ Enter(p, Op("Walk", d, 0, Zero), "MapWalk_rlock", RetErr("ErrNilData"))

\* Walk: d.mtx.RLock()
MapWalk_rlock(p) ==
    /\ pc[p] = "MapWalk_rlock"
    /\ RLock(p)
    /\ Goto(p, "MapWalk_keys")
    /\ UNCHANGED <<impl, data, order, c, op, s, ret, histVars, extVars>>

\* Walk: the range expression d.orderedKeys(), evaluated once
MapWalk_keys(p) ==
    /\ pc[p] = "MapWalk_keys"
    /\ \E ks \in orderedKeys(data) : wkeys' = [wkeys EXCEPT ![p] = ks]
    /\ seen' = [seen EXCEPT ![p] = Len(log)]
    /\ Goto(p, "MapWalk_range")
    /\ UNCHANGED <<storeVars, op, s, ret, log, floor, visited, stack, snap, ctxVars>>

\* Walk: the next k of the range and the call fn(k, d.data[k].s), or the
\* return nil after the last k
MapWalk_range(p) ==
    /\ pc[p] = "MapWalk_range"
    /\ IF Len(visited[p]) < Len(wkeys[p])
          THEN LET k == wkeys[p][Len(visited[p]) + 1]
               IN  /\ visited' = [visited EXCEPT ![p] = Append(@, Visit(k, data[k].s, "running"))]
                   /\ Goto(p, "MapWalk_fn")
                   /\ UNCHANGED ret
          ELSE /\ ret' = [ret EXCEPT ![p] = RetErr("nil")]
               /\ Goto(p, "MapWalk_runlock")
               /\ UNCHANGED visited
    /\ UNCHANGED <<storeVars, op, s, histVars, wkeys, stack, snap, ctxVars>>

\* The visitor returns nil: Walk goes on with the range.
MapWalk_fn_nil(p) ==
    /\ pc[p] = "MapWalk_fn"
    /\ visited' = [visited EXCEPT ![p][Len(visited[p])].err = "nil"]
    /\ Goto(p, "MapWalk_range")
    /\ UNCHANGED <<storeVars, op, s, ret, histVars, wkeys, stack, snap, ctxVars>>

\* A Walk that goes on with the range after the visitor returned an error.
MapWalk_fn_err_goon(p) ==
    /\ pc[p] = "MapWalk_fn"
    /\ visited' = [visited EXCEPT ![p][Len(visited[p])].err = "ErrVisitor"]
    /\ Goto(p, "MapWalk_range")
    /\ UNCHANGED <<storeVars, op, s, ret, histVars, wkeys, stack, snap, ctxVars>>

\* The visitor returns an error: if err := fn(...); err != nil { return err }
MapWalk_fn_err(p) ==
    /\ pc[p] = "MapWalk_fn"
    /\ visited' = [visited EXCEPT ![p][Len(visited[p])].err = "ErrVisitor"]
    /\ ret' = [ret EXCEPT ![p] = RetErr("ErrVisitor")]
    /\ Goto(p, "MapWalk_runlock")
    /\ UNCHANGED <<storeVars, op, s, histVars, wkeys, stack, snap, ctxVars>>

\* The visitor calls Set on the Data that is being walked: the call begins
\* as every Set on a Data that is not nil does, at d.mtx.Lock().
MapWalk_fn_Set(p, k, v) ==
    /\ pc[p] = "MapWalk_fn"
    /\ stack' = [stack EXCEPT ![p] = <<Frame(pc[p], op[p])>> \o @]
    /\ op' = [op EXCEPT ![p] = Op("Set", TRUE, k, v)]
    /\ Goto(p, "MapSet_lock")
    /\ UNCHANGED <<storeVars, s, ret, histVars, wkeys, visited, snap, ctxVars>>

\* Walk: the deferred d.mtx.RUnlock()
MapWalk_runlock(p) ==
    /\ pc[p] = "MapWalk_runlock"
    /\ RUnlock(p)
    /\ Goto(p, "MapWalk_ret")
    /\ UNCHANGED <<impl, data, order, c, op, s, ret, histVars, extVars>>

\* The caller takes the error that Walk returned and is ready for its next
\* call.
MapWalk_return(p) ==
    /\ pc[p] = "MapWalk_ret"
    /\ pc' = [pc EXCEPT ![p] = "idle"]
    /\ op' = [op EXCEPT ![p] = NoOp]
    /\ ret' = [ret EXCEPT ![p] = NoRet]
    /\ seen' = [seen EXCEPT ![p] = 0]
    /\ floor' = [floor EXCEPT ![p] = 0]
    /\ wkeys' = [wkeys EXCEPT ![p] = <<>>]
    /\ visited' = [visited EXCEPT ![p] = <<>>]
    /\ UNCHANGED <<storeVars, s, log, stack, snap, ctxVars>>

\* ---- src/unnamed/part_001 ----
\* The capacity append gives a slice that has to grow (Go's growslice, for
\* capacities under 256 elements).
growslice(oldCap, newLen) == IF newLen > 2 * oldCap THEN newLen ELSE 2 * oldCap

\* append(a[off : off+n], xs...) where a is the backing array: the elements go
\* into the backing array when they fit into its capacity, otherwise into a
\* new and larger array. The result is [arr, off, len] and whether it grew.
append(a, off, n, xs) ==
    IF n + Len(xs) <= Len(a) - off
       THEN [arr |-> [j \in 1..Len(a) |->
                        IF j > off + n /\ j <= off + n + Len(xs) THEN xs[j - off - n] ELSE a[j]],
             off |-> off, len |-> n + Len(xs), grown |-> FALSE]
       ELSE [arr |-> [j \in 1..growslice(Len(a) - off, n + Len(xs)) |->
                        IF j <= n THEN a[off + j]
                        ELSE IF j <= n + Len(xs) THEN xs[j - n] ELSE ZeroKeyVal],
             off |-> 0, len |-> n + Len(xs), grown |-> TRUE]

\* Set on a key that is found, without s[i].Val = val.
moveToEnd_noval(sl, i, val) ==
    LET inner == append(sl.arr, i, sl.len - i, <<sl.arr[i]>>)
        a1 == IF inner.grown THEN sl.arr ELSE inner.arr
        xs == SubSeq(inner.arr, inner.off + 1, inner.off + inner.len)
        outer == append(a1, 0, i - 1, xs)
    IN  Slice(outer.arr, outer.len)

\* Set on a key that is found, without the append: s[i].Val = val; return nil
moveToEnd_inplace(sl, i, val) == Slice([sl.arr EXCEPT ![i].Val = val], sl.len)

\* Set, key found at s[i] (i counts from 1 here):
\*   s[i].Val = val; s = append(s[:i], append(s[i+1:], s[i])...)
\* The inner append writes behind the end of s when s has spare capacity, and
\* the outer append then copies within the same array.
moveToEnd(sl, i, val) ==
    LET a0 == [sl.arr EXCEPT ![i].Val = val]
        inner == append(a0, i, sl.len - i, <<a0[i]>>)
        a1 == IF inner.grown THEN a0 ELSE inner.arr
        xs == SubSeq(inner.arr, inner.off + 1, inner.off + inner.len)
        outer == append(a1, 0, i - 1, xs)
    IN  Slice(outer.arr, outer.len)

\* A loop whose comparison never matches.
find_none(sl, key) == 0

\* The first index of s whose Key is key, 0 when there is none.
find(sl, key) ==
    IF \E j \in 1..sl.len : sl.arr[j].Key = key
       THEN CHOOSE j \in 1..sl.len : sl.arr[j].Key = key /\ \A h \in 1..(j - 1) : sl.arr[h].Key # key
       ELSE 0

\* Set: the loop over s, and s = append(s, KeyVal{key, val}) after it
Set(sl, key, val) ==
    IF find(sl, key) # 0
       THEN moveToEnd(sl, find(sl, key), val)
       ELSE LET r == append(sl.arr, 0, sl.len, <<KeyVal(key, val)>>)
            IN  Slice(r.arr, r.len)

\* A receive that leaves the slice in the channel.
recv_peek(p) ==
    /\ c # <<>>
    /\ s' = [s EXCEPT ![p] = Head(c)]
    /\ c' = c

\* s := <-d.c
recv(p) ==
    /\ c # <<>>
    /\ s' = [s EXCEPT ![p] = Head(c)]
    /\ c' = Tail(c)

\* the deferred d.c <- s
send(p) ==
    /\ Len(c) < ChanCap
    /\ c' = Append(c, s[p])
    /\ s' = [s EXCEPT ![p] = NoSlice]

\* Set: nil check
ChanSet_call(p, d, k, v) ==
    /\ impl = "chan"
    /\ Enter(p, Op("Set", d, k, v), "ChanSet_recv", RetErr("ErrNoData"))

ChanSet_recv(p) ==
    /\ pc[p] = "ChanSet_recv"
    /\ recv(p)
    /\ Goto(p, "ChanSet_body")
    /\ UNCHANGED <<impl, data, order, mtx, op, ret, histVars, extVars>>

\* Set whose deferred send has taken s as an argument when it was deferred,
\* defer func(s []KeyVal) { d.c <- s }(s): the slice that goes back has the
\* backing array and the length that came out of the channel.
ChanSet_body_eager(p) ==
    /\ pc[p] = "ChanSet_body"
    /\ s' = [s EXCEPT ![p] =
                LET r == Set(s[p], op[p].key, op[p].val)
                IN  IF Len(r.arr) = Len(s[p].arr) THEN Slice(r.arr, s[p].len) ELSE s[p]]
    /\ log' = Append(log, KeyVal(op[p].key, op[p].val))
    /\ Goto(p, "ChanSet_send")
    /\ UNCHANGED <<storeVars, op, ret, seen, floor, extVars>>

ChanSet_body(p) ==
    /\ pc[p] = "ChanSet_body"
    /\ s' = [s EXCEPT ![p] = Set(s[p], op[p].key, op[p].val)]
    /\ log' = Append(log, KeyVal(op[p].key, op[p].val))
    /\ Goto(p, "ChanSet_send")
    /\ UNCHANGED <<storeVars, op, ret, seen, floor, extVars>>

ChanSet_send(p) ==
    /\ pc[p] = "ChanSet_send"
    /\ send(p)
    /\ ret' = [ret EXCEPT ![p] = RetErr("nil")]
    /\ Goto(p, "ret")
    /\ UNCHANGED <<impl, data, order, mtx, op, histVars, extVars>>

\* Get that reports a nil receiver as a key that is not there.
ChanGet_call_notfound(p, d, k) ==
    /\ impl = "chan"
    /\ Enter(p, Op("Get", d, k, Zero), "ChanGet_recv", RetVal(Zero, "ErrNotFound"))

\* Get: nil check
ChanGet_call(p, d, k) ==
    /\ impl = "chan"
    /\ Enter(p, Op("Get", d, k, Zero), "ChanGet_recv", RetVal(Zero, "ErrNoData"))

\* Every read of part_001 takes the slice out of the channel first
ChanRead_recv(p) ==
    /\ pc[p] \in {"ChanGet_recv", "ChanGetAllSlice_recv", "ChanGetAllMap_recv"}
    /\ recv(p)
    /\ Goto(p, CASE pc[p] = "ChanGet_recv" -> "ChanGet_body"
                 [] pc[p] = "ChanGetAllSlice_recv" -> "ChanGetAllSlice_body"
                 [] pc[p] = "ChanGetAllMap_recv" -> "ChanGetAllMap_body")
    /\ UNCHANGED <<impl, data, order, mtx, op, ret, histVars, extVars>>

\* Every read of part_001 returns through the deferred send of s
ChanRead_send(p) ==
    /\ pc[p] = "ChanRead_send"
    /\ send(p)
    /\ Goto(p, "ret")
    /\ UNCHANGED <<impl, data, order, mtx, op, ret, histVars, extVars>>

ChanRead(p, r) ==
    /\ ret' = [ret EXCEPT ![p] = r]
    /\ seen' = [seen EXCEPT ![p] = Len(log)]
    /\ Goto(p, "ChanRead_send")
    /\ UNCHANGED <<storeVars, op, s, log, floor, extVars>>

\* Get: the loop over s, and return nil, ErrNotFound after it
ChanGet(sl, key) ==
    IF find(sl, key) # 0
       THEN RetVal(sl.arr[find(sl, key)].Val, "nil")
       ELSE RetVal(Zero, "ErrNotFound")

ChanGet_body(p) ==
    /\ pc[p] = "ChanGet_body"
    /\ ChanRead(p, ChanGet(s[p], op[p].key))

\* GetAllSlice that reports the missing store as its documentation says.
ChanGetAllSlice_call_nodata(p, d) ==
    /\ impl = "chan"
    /\ Enter(p, Op("GetAllSlice", d, 0, Zero), "ChanGetAllSlice_recv", RetErr("ErrNoData"))

\* GetAllSlice: nil check
ChanGetAllSlice_call(p, d) ==
    /\ impl = "chan"
    /\ Enter(p, Op("GetAllSlice", d, 0, Zero), "ChanGetAllSlice_recv", RetSlice(<<>>, TRUE))

\* GetAllSlice: r := make([]KeyVal, len(s)); copy(r, s)
ChanGetAllSlice(sl) ==
    LET r == make(sl.len, sl.len)
    IN  [j \in 1..Len(r.arr) |-> IF j <= sl.len THEN sl.arr[j] ELSE r.arr[j]]

\* GetAllSlice that returns s itself instead of a copy of it.
ChanGetAllSlice_body_nocopy(p) ==
    /\ pc[p] = "ChanGetAllSlice_body"
    /\ ChanRead(p, [RetSlice(SubSeq(s[p].arr, 1, s[p].len), FALSE) EXCEPT !.shared = TRUE])

ChanGetAllSlice_body(p) ==
    /\ pc[p] = "ChanGetAllSlice_body"
    /\ ChanRead(p, RetSlice(ChanGetAllSlice(s[p]), FALSE))

\* GetAllMap: nil check
ChanGetAllMap_call(p, d) ==
    /\ impl = "chan"
    /\ Enter(p, Op("GetAllMap", d, 0, Zero), "ChanGetAllMap_recv", RetMap(EmptyMap, FALSE))

\* GetAllMap: m[kv.Key] = kv.Val for every kv of s, in order
RECURSIVE GetAllMapFrom(_, _, _)
GetAllMapFrom(sl, j, m) ==
    IF j > sl.len THEN m
    ELSE GetAllMapFrom(sl, j + 1, MapPut(m, sl.arr[j].Key, sl.arr[j].Val))

\* GetAllMap whose loop starts at the second element of s.
GetAllMap_fromsecond(sl) == GetAllMapFrom(sl, 2, EmptyMap)

GetAllMap(sl) == GetAllMapFrom(sl, 1, EmptyMap)

ChanGetAllMap_body(p) ==
    /\ pc[p] = "ChanGetAllMap_body"
    /\ ChanRead(p, RetMap(GetAllMap(s[p]), FALSE))

\* ---- New ----
\* data.go: d := &Data{data: map[string]pair{}}
NewMap ==
    /\ data = EmptyMap
    /\ order = 0
    /\ mtx = [w |-> NoProc, r |-> {}]
    /\ c = <<>>

\* part_001: c := make(chan []KeyVal, 1); c <- make([]KeyVal, 0, 32)
NewChan ==
    /\ c = <<make(0, InitCap)>>
    /\ data = EmptyMap
    /\ order = 0
    /\ mtx = [w |-> NoProc, r |-> {}]

Init ==
    /\ impl \in {"map", "chan"}
    /\ IF impl = "map" THEN NewMap ELSE NewChan
    /\ pc = [p \in Procs |-> "idle"]
    /\ op = [p \in Procs |-> NoOp]
    /\ s = [p \in Procs |-> NoSlice]
    /\ ret = [p \in Procs |-> NoRet]
    /\ log = <<>>
    /\ seen = [p \in Procs |-> 0]
    /\ floor = [p \in Procs |-> 0]
    /\ wkeys = [p \in Procs |-> <<>>]
    /\ visited = [p \in Procs |-> <<>>]
    /\ stack = [p \in Procs |-> <<>>]
    /\ snap = [p \in Procs |-> NoSnap]
    /\ ctxs = <<Background, WithValue(1, 1)>>
    /\ rcv = Rcv(1, FALSE)
    /\ sel = 1
    /\ heap = <<>>
    /\ owner = <<0, 1>>

\* ---- the callers ----
\* The Sets on the store that have begun.
SetsBegun ==
    Len(log) + Cardinality({p \in Procs :
        pc[p] \in {"MapSet_lock", "MapSet_write", "ChanSet_recv", "ChanSet_body"}})

\* Caller p calls a method on a receiver of ds (TRUE is the store, FALSE a nil
\* *Data) with a key of ks and, for Set, a value of vs, for GetDefault, a
\* default value of dfs.
Call(p, ds, ks, vs, dfs, maxSets) ==
    \/ \E d \in ds, k \in ks, v \in vs :
          /\ d => SetsBegun < maxSets
          /\ \/ MapSet_call(p, d, k, v)
             \/ ChanSet_call(p, d, k, v)
    \/ \E d \in ds, k \in ks :
          \/ MapGet_call(p, d, k)
          \/ ChanGet_call(p, d, k)
    \/ \E d \in ds, k \in ks, dflt \in dfs : MapGetDefault_call(p, d, k, dflt)
    \/ \E d \in ds :
          \/ MapGetAll_call(p, d)
          \/ MapGetAllSlice_call(p, d)
          \/ ChanGetAllSlice_call(p, d)
          \/ ChanGetAllMap_call(p, d)

\* Caller p takes the next step of the method it is in.
Step(p) ==
    \/ MapSet_lock(p)
    \/ MapSet_write(p)
    \/ MapSet_incr(p)
    \/ MapSet_unlock(p)
    \/ MapRead_rlock(p)
    \/ MapGet_read(p)
    \/ MapGetDefault_read(p)
    \/ MapGetAll_read(p)
    \/ MapGetAllSlice_read(p)
    \/ MapRead_runlock(p)
    \/ ChanSet_recv(p)
    \/ ChanSet_body(p)
    \/ ChanSet_send(p)
    \/ ChanRead_recv(p)
    \/ ChanGet_body(p)
    \/ ChanGetAllSlice_body(p)
    \/ ChanGetAllMap_body(p)
    \/ ChanRead_send(p)
    \/ Return(p)

\* A value no earlier Set has stored; the first one is the zero value.
Fresh == SetsBegun

\* Concurrent callers of one store, every Set with a value of its own.
Next == \E p \in Procs : Call(p, {TRUE}, 1..ConcKeys, {Fresh}, {Zero}, ConcSets) \/ Step(p)

Spec == Init /\ [][Next]_vars

\* One caller, every call returning before the next begins, every Set with a
\* value of its own.
NextSeq == Call(1, BOOLEAN, Keys, {Fresh}, Vals, MaxSets) \/ Step(1)

SpecSeq == Init /\ [][NextSeq]_vars

\* One caller, the values of the Sets chosen freely.
NextVals == Call(1, BOOLEAN, 1..ValKeys, Vals, Vals, ValSets) \/ Step(1)

SpecVals == Init /\ [][NextVals]_vars

\* N writers, each making SetsPerWriter Sets on keys of its own, and one
\* snapshot as a map once every writer is done.
KeysOf(p) == ((p - 1) * SetsPerWriter + 1)..(p * SetsPerWriter)
SetsDone(p) == Cardinality({j \in 1..Len(log) : log[j].Key \in KeysOf(p)})
WritersDone == Len(log) = Cardinality(Procs) * SetsPerWriter /\ \A p \in Procs : pc[p] = "idle"

WriterCall(p) ==
    /\ SetsDone(p) < SetsPerWriter
    /\ \E v \in Vals :
          LET k == (p - 1) * SetsPerWriter + SetsDone(p) + 1
          IN  \/ MapSet_call(p, TRUE, k, v)
              \/ ChanSet_call(p, TRUE, k, v)

SnapshotCall ==
    /\ WritersDone
    /\ \/ MapGetAll_call(1, TRUE)
       \/ ChanGetAllMap_call(1, TRUE)

WriterStep(p) ==
    \/ MapSet_lock(p)
    \/ MapSet_write(p)
    \/ MapSet_incr(p)
    \/ MapSet_unlock(p)
    \/ MapRead_rlock(p)
    \/ MapGetAll_read(p)
    \/ MapRead_runlock(p)
    \/ ChanSet_recv(p)
    \/ ChanSet_body(p)
    \/ ChanSet_send(p)
    \/ ChanRead_recv(p)
    \/ ChanGetAllMap_body(p)
    \/ ChanRead_send(p)
    \/ Return(p)

NextWriters == SnapshotCall \/ \E p \in Procs : WriterCall(p) \/ WriterStep(p)

SpecWriters == Init /\ [][NextWriters]_vars

\* Concurrent callers of one Data of data.go that Set and Walk; a visitor
\* returns nil, returns an error, or calls Set on the Data.
WalkCall(p) ==
    \/ \E d \in BOOLEAN : MapWalk_call(p, d)
    \/ \E k \in 1..WalkKeys : SetsBegun < WalkSets /\ MapSet_call(p, TRUE, k, Fresh)

WalkStep(p) ==
    \/ MapSet_lock(p)
    \/ MapSet_write(p)
    \/ MapSet_incr(p)
    \/ MapSet_unlock(p)
    \/ Return(p)
    \/ MapWalk_rlock(p)
    \/ MapWalk_keys(p)
    \/ MapWalk_range(p)
    \/ MapWalk_fn_nil(p)
    \/ MapWalk_fn_err(p)
    \/ \E k \in 1..WalkKeys : SetsBegun < WalkSets /\ MapWalk_fn_Set(p, k, Fresh)
    \/ MapWalk_runlock(p)
    \/ MapWalk_return(p)

InitWalk == Init /\ impl = "map"

NextWalk == \E p \in Procs : WalkCall(p) \/ WalkStep(p)

SpecWalk == InitWalk /\ [][NextWalk]_vars

\* ---- the snapshots in the hands of the callers ----
\* The value a caller writes into a snapshot: no Set stores it.
Scribble == 9

Holder == CHOOSE p \in Procs : pc[p] \in {"ChanSet_body", "ChanSet_send", "ChanGet_body",
                                          "ChanGetAllSlice_body", "ChanGetAllMap_body", "ChanRead_send"}

\* The caller keeps what GetAll, GetAllMap or GetAllSlice returned.
Keep(p) ==
    /\ pc[p] = "ret"
    /\ op[p].name \in {"GetAll", "GetAllMap", "GetAllSlice"}
    /\ snap' = [snap EXCEPT ![p] = [kind |-> IF op[p].name = "GetAllSlice" THEN "slice" ELSE "map",
                                    kvs |-> ret[p].kvs, m |-> ret[p].m, shared |-> ret[p].shared]]
    /\ pc' = [pc EXCEPT ![p] = "idle"]
    /\ op' = [op EXCEPT ![p] = NoOp]
    /\ ret' = [ret EXCEPT ![p] = NoRet]
    /\ seen' = [seen EXCEPT ![p] = 0]
    /\ floor' = [floor EXCEPT ![p] = 0]
    /\ UNCHANGED <<storeVars, s, log, walkVars, ctxVars>>

\* The caller assigns to an element of the slice it has kept, kvs[j].Val = v:
\* the assignment goes to the backing array of kvs.
SnapWrite_slice(p, j, v) ==
    /\ pc[p] = "idle"
    /\ snap[p].kind = "slice"
    /\ j \in DOMAIN snap[p].kvs
    /\ IF snap[p].shared
          THEN /\ IF c # <<>>
                     THEN c' = <<[c[1] EXCEPT !.arr[j].Val = v]>> /\ UNCHANGED s
                     ELSE s' = [s EXCEPT ![Holder].arr[j].Val = v] /\ UNCHANGED c
               /\ UNCHANGED snap
          ELSE /\ snap' = [snap EXCEPT ![p].kvs[j].Val = v]
               /\ UNCHANGED <<c, s>>
    /\ UNCHANGED <<impl, data, order, mtx, pc, op, ret, histVars, walkVars, ctxVars>>

\* The caller assigns to a key of the map it has kept, m[k] = v.
SnapWrite_map(p, k, v) ==
    /\ pc[p] = "idle"
    /\ snap[p].kind = "map"
    /\ snap' = [snap EXCEPT ![p].m = MapPut(@, k, v)]
    /\ UNCHANGED <<storeVars, callVars, histVars, walkVars, ctxVars>>

\* Two concurrent callers of one Data: the first takes snapshots, keeps them
\* and writes to them, the second Sets.
SnapCall(p) ==
    \/ \E k \in 1..SnapKeys :
          /\ p = 2
          /\ SetsBegun < SnapSets
          /\ MapSet_call(p, TRUE, k, Fresh) \/ ChanSet_call(p, TRUE, k, Fresh)
    \/ /\ p = 1
       /\ \/ MapGetAll_call(p, TRUE)
          \/ MapGetAllSlice_call(p, TRUE)
          \/ ChanGetAllSlice_call(p, TRUE)
          \/ ChanGetAllMap_call(p, TRUE)

SnapStep(p) ==
    \/ MapSet_lock(p)
    \/ MapSet_write(p)
    \/ MapSet_incr(p)
    \/ MapSet_unlock(p)
    \/ MapRead_rlock(p)
    \/ MapGetAll_read(p)
    \/ MapGetAllSlice_read(p)
    \/ MapRead_runlock(p)
    \/ ChanSet_recv(p)
    \/ ChanSet_body(p)
    \/ ChanSet_send(p)
    \/ ChanRead_recv(p)
    \/ ChanGetAllSlice_body(p)
    \/ ChanGetAllMap_body(p)
    \/ ChanRead_send(p)
    \/ Return(p) /\ op[p].name = "Set"
    \/ Keep(p)
    \/ \E j \in 1..SnapKeys : SnapWrite_slice(p, j, Scribble)
    \/ \E k \in 1..SnapKeys : SnapWrite_map(p, k, Scribble)

NextSnap == \E p \in Procs : SnapCall(p) \/ SnapStep(p)

SpecSnap == Init /\ [][NextSnap]_vars

\* ---- New and From on the contexts ----
\* ctx.Value(contextKey{}): the value of the nearest context, from ctx up
\* through its parents, that holds one under contextKey; 0 is nil.
RECURSIVE Value(_, _)
Value(cs, i) ==
    IF i = 0 THEN 0
    ELSE IF cs[i].val # 0 THEN cs[i].val ELSE Value(cs, cs[i].parent)

\* From that looks at the context it is given and not at the parents.
From_shallow(cs, i) == cs[i].val

\* From: v := ctx.Value(contextKey{}); if v == nil { return nil }; return v.(*Data)
From(cs, i) ==
    LET v == Value(cs, i)
    IN  IF v = 0 THEN 0 ELSE v

\* The fields of the Data that the caller has selected, and its history.
Fields == [data |-> data, order |-> order, mtx |-> mtx, c |-> c, log |-> log]

\* The fields of a Data that New has just made.
NewFields ==
    [data |-> EmptyMap, order |-> 0, mtx |-> [w |-> NoProc, r |-> {}],
     c |-> IF impl = "chan" THEN <<make(0, InitCap)>> ELSE <<>>, log |-> <<>>]

\* The Datas made so far.
Datas == {sel} \cup DOMAIN heap

\* The caller goes on with the Data sid, whose fields are f: the fields of
\* the Data it leaves go to the heap.
Select(sid, f) ==
    IF sid = sel \/ sid = 0
       THEN UNCHANGED <<data, order, mtx, c, log, sel, heap>>
       ELSE /\ data' = f.data
            /\ order' = f.order
            /\ mtx' = f.mtx
            /\ c' = f.c
            /\ log' = f.log
            /\ sel' = sid
            /\ heap' = [x \in (DOMAIN heap \cup {sel}) \ {sid} |-> IF x = sel THEN Fields ELSE heap[x]]

\* New that makes no Data when the context has one already.
New_reuse(parent) ==
    /\ pc[1] = "idle"
    /\ Len(ctxs) < MaxCtxs
    /\ Cardinality(Datas) < MaxDatas
    /\ LET sid == IF From(ctxs, parent) # 0 THEN From(ctxs, parent) ELSE Cardinality(Datas) + 1
       IN  /\ ctxs' = Append(ctxs, WithValue(parent, sid))
           /\ owner' = Append(owner, sid)
           /\ rcv' = Rcv(sid, FALSE)
           /\ Select(sid, IF sid \in DOMAIN heap THEN heap[sid] ELSE NewFields)
    /\ UNCHANGED <<impl, callVars, seen, floor, walkVars, snap>>

\* New: a new Data, and the context that holds it under contextKey as a
\* child of ctx; the caller has both.
New(parent) ==
    /\ pc[1] = "idle"
    /\ Len(ctxs) < MaxCtxs
    /\ Cardinality(Datas) < MaxDatas
    /\ LET sid == Cardinality(Datas) + 1
       IN  /\ ctxs' = Append(ctxs, WithValue(parent, sid))
           /\ owner' = Append(owner, sid)
           /\ rcv' = Rcv(sid, FALSE)
           /\ Select(sid, NewFields)
    /\ UNCHANGED <<impl, callVars, seen, floor, walkVars, snap>>

\* ctx, cancel := context.WithCancel(ctx)
Derive(parent) ==
    /\ pc[1] = "idle"
    /\ Len(ctxs) < MaxCtxs
    /\ ctxs' = Append(ctxs, WithCancel(parent))
    /\ owner' = Append(owner, owner[parent])
    /\ UNCHANGED <<storeVars, callVars, histVars, walkVars, snap, rcv, sel, heap>>

\* d := From(ctx): the caller makes its next calls on what From returns.
FromCtx(i) ==
    /\ pc[1] = "idle"
    /\ rcv' = Rcv(From(ctxs, i), TRUE)
    /\ Select(rcv'.d, IF rcv'.d \in DOMAIN heap THEN heap[rcv'.d] ELSE Fields)
    /\ UNCHANGED <<impl, callVars, seen, floor, walkVars, snap, ctxs, owner>>

\* The caller makes its next calls on a *Data that New returned to it.
Hold(sid) ==
    /\ pc[1] = "idle"
    /\ rcv' = Rcv(sid, FALSE)
    /\ Select(sid, IF sid \in DOMAIN heap THEN heap[sid] ELSE Fields)
    /\ UNCHANGED <<impl, callVars, seen, floor, walkVars, snap, ctxs, owner>>

\* The number of Sets that the Datas of S have stored.
RECURSIVE Stored(_)
Stored(S) ==
    IF S = {} THEN 0
    ELSE LET x == CHOOSE y \in S : TRUE
         IN  Len(heap[x].log) + Stored(S \ {x})

\* One caller that makes contexts and Datas, Sets through what From returns
\* (CtxSets Sets in all), and reads through what From returns and through
\* what New returned.
CtxCall ==
    \/ \E k \in 1..CtxKeys :
          /\ rcv.from
          /\ rcv.d # 0 => SetsBegun + Stored(DOMAIN heap) < CtxSets
          /\ MapSet_call(1, rcv.d # 0, k, Fresh) \/ ChanSet_call(1, rcv.d # 0, k, Fresh)
    \/ MapGetAllSlice_call(1, rcv.d # 0)
    \/ ChanGetAllSlice_call(1, rcv.d # 0)

CtxStep ==
    \/ MapSet_lock(1)
    \/ MapSet_write(1)
    \/ MapSet_incr(1)
    \/ MapSet_unlock(1)
    \/ MapRead_rlock(1)
    \/ MapGetAllSlice_read(1)
    \/ MapRead_runlock(1)
    \/ ChanSet_recv(1)
    \/ ChanSet_body(1)
    \/ ChanSet_send(1)
    \/ ChanRead_recv(1)
    \/ ChanGetAllSlice_body(1)
    \/ ChanRead_send(1)
    \/ Return(1)

NextCtx ==
    \/ \E i \in DOMAIN ctxs : New(i) \/ Derive(i) \/ FromCtx(i)
    \/ \E sid \in Datas : Hold(sid)
    \/ CtxCall
    \/ CtxStep

SpecCtx == Init /\ [][NextCtx]_vars

\* ---- GetAs ----
\* The struct types of TestGetAs and their fields: foo and bar have the same
\* fields, baz has one more.
Types == {"foo", "bar", "baz"}
Layout(t) == IF t = "baz" THEN <<"string", "int", "float64">> ELSE <<"string", "int">>

\* A value of a struct type, as an interface{} holds it: the type and the
\* fields.
Typed(t, x) == [type |-> t, x |-> x]

\* GetAs that takes the types for the same when their fields are the same.
GetAs_layout(sl, key, dst) ==
    IF find(sl, key) = 0 THEN RetVal(dst, "ErrNotFound")
    ELSE LET val == sl.arr[find(sl, key)].Val
         IN  IF Layout(val.type) = Layout(dst.type)
                THEN RetVal(Typed(dst.type, val.x), "nil")
                ELSE RetVal(dst, "ErrIncompatibleType")

\* GetAs: the value of the key is assigned to the destination when its type
\* is the type of the destination; the returned val is the destination after
\* the call.
GetAs(sl, key, dst) ==
    IF find(sl, key) = 0 THEN RetVal(dst, "ErrNotFound")
    ELSE LET val == sl.arr[find(sl, key)].Val
         IN  IF val.type = dst.type
                THEN RetVal(val, "nil")
                ELSE RetVal(dst, "ErrIncompatibleType")

\* GetAs: nil check
ChanGetAs_call(p, d, k, dst) ==
    /\ impl = "chan"
    /\ Enter(p, Op("GetAs", d, k, dst), "ChanGetAs_recv", RetVal(dst, "ErrNoData"))

\* GetAs: s := <-d.c
ChanGetAs_recv(p) ==
    /\ pc[p] = "ChanGetAs_recv"
    /\ recv(p)
    /\ Goto(p, "ChanGetAs_body")
    /\ UNCHANGED <<impl, data, order, mtx, op, ret, histVars, extVars>>

ChanGetAs_body(p) ==
    /\ pc[p] = "ChanGetAs_body"
    /\ ChanRead(p, GetAs(s[p], op[p].key, op[p].val))

\* One caller that Sets values of the struct types, every Set with fields of
\* its own, and calls GetAs with destinations of the struct types that have
\* the zero value, as var f foo has.
GetAsCall ==
    \/ \E d \in BOOLEAN, k \in 1..GetAsKeys, t \in Types :
          /\ d => SetsBegun < GetAsSets
          /\ ChanSet_call(1, d, k, Typed(t, Fresh + 1))
    \/ \E d \in BOOLEAN, k \in 1..GetAsKeys, t \in Types : ChanGetAs_call(1, d, k, Typed(t, Zero))

GetAsStep ==
    \/ ChanSet_recv(1)
    \/ ChanSet_body(1)
    \/ ChanSet_send(1)
    \/ ChanGetAs_recv(1)
    \/ ChanGetAs_body(1)
    \/ ChanRead_send(1)
    \/ Return(1)

InitGetAs == Init /\ impl = "chan"

NextGetAs == GetAsCall \/ GetAsStep

SpecGetAs == InitGetAs /\ [][NextGetAs]_vars

\* ---- a Data of data.go beside a Data of part_001 ----
\* New of data.go and New of part_001: caller 1 has the Data of data.go,
\* caller 2 the Data of part_001.
InitBoth ==
    /\ impl = "both"
    /\ data = EmptyMap
    /\ order = 0
    /\ mtx = [w |-> NoProc, r |-> {}]
    /\ c = <<make(0, InitCap)>>
    /\ pc = [p \in Procs |-> "idle"]
    /\ op = [p \in Procs |-> NoOp]
    /\ s = [p \in Procs |-> NoSlice]
    /\ ret = [p \in Procs |-> NoRet]
    /\ log = <<>>
    /\ seen = [p \in Procs |-> 0]
    /\ floor = [p \in Procs |-> 0]
    /\ wkeys = [p \in Procs |-> <<>>]
    /\ visited = [p \in Procs |-> <<>>]
    /\ stack = [p \in Procs |-> <<>>]
    /\ snap = [p \in Procs |-> NoSnap]
    /\ ctxs = <<Background, WithValue(1, 1)>>
    /\ rcv = Rcv(1, FALSE)
    /\ sel = 1
    /\ heap = <<>>
    /\ owner = <<0, 1>>

\* The same call with the same arguments on the two Datas: each goes to the
\* first label of its method.
BothCall(o1, l1, o2, l2) ==
    /\ \A p \in Procs : pc[p] = "idle"
    /\ op' = [p \in Procs |-> IF p = 1 THEN o1 ELSE o2]
    /\ pc' = [p \in Procs |-> IF p = 1 THEN l1 ELSE l2]
    /\ ret' = [p \in Procs |-> NoRet]
    /\ floor' = [p \in Procs |-> Returned]
    /\ UNCHANGED <<storeVars, s, log, seen, extVars>>

\* d.Set(k, v) on the two Datas; log gets every Set twice, once from each.
BothSet_call(k, v) ==
    /\ Len(log) < 2 * BothSets
    /\ BothCall(Op("Set", TRUE, k, v), "MapSet_lock", Op("Set", TRUE, k, v), "ChanSet_recv")

BothGetAllSlice_call ==
    BothCall(Op("GetAllSlice", TRUE, 0, Zero), "MapGetAllSlice_rlock",
             Op("GetAllSlice", TRUE, 0, Zero), "ChanGetAllSlice_recv")

BothGetAll_call ==
    BothCall(Op("GetAll", TRUE, 0, Zero), "MapGetAll_rlock",
             Op("GetAllMap", TRUE, 0, Zero), "ChanGetAllMap_recv")

\* The caller takes what the two calls returned.
BothReturn ==
    /\ \A p \in Procs : pc[p] = "ret"
    /\ pc' = [p \in Procs |-> "idle"]
    /\ op' = [p \in Procs |-> NoOp]
    /\ ret' = [p \in Procs |-> NoRet]
    /\ seen' = [p \in Procs |-> 0]
    /\ floor' = [p \in Procs |-> 0]
    /\ UNCHANGED <<storeVars, s, log, extVars>>

BothStep ==
    \/ MapSet_lock(1)
    \/ MapSet_write(1)
    \/ MapSet_incr(1)
    \/ MapSet_unlock(1)
    \/ MapRead_rlock(1)
    \/ MapGetAll_read(1)
    \/ MapGetAllSlice_read(1)
    \/ MapRead_runlock(1)
    \/ ChanSet_recv(2)
    \/ ChanSet_body(2)
    \/ ChanSet_send(2)
    \/ ChanRead_recv(2)
    \/ ChanGetAllSlice_body(2)
    \/ ChanGetAllMap_body(2)
    \/ ChanRead_send(2)

NextBoth ==
    \/ \E k \in 1..BothKeys, v \in Vals : BothSet_call(k, v)
    \/ BothGetAllSlice_call
    \/ BothGetAll_call
    \/ BothStep
    \/ BothReturn

SpecBoth == InitBoth /\ [][NextBoth]_vars

\* Concurrent callers of one Data: caller 1 reads and Walks, caller 2 reads
\* and Sets; the visitor of a Walk returns nil or an error and calls nothing.
ReadsStep(p) ==
    \/ p = 1 /\ MapWalk_call(p, TRUE)
    \/ MapWalk_rlock(p)
    \/ MapWalk_keys(p)
    \/ MapWalk_range(p)
    \/ MapWalk_fn_nil(p)
    \/ MapWalk_fn_err(p)
    \/ MapWalk_runlock(p)
    \/ MapWalk_return(p)

NextReads ==
    \E p \in Procs :
        \/ Call(p, {TRUE}, 1..ConcKeys, {Fresh}, {Zero}, IF p = 2 THEN ConcSets ELSE 0)
        \/ Step(p)
        \/ ReadsStep(p)

SpecReads == Init /\ [][NextReads]_vars

\* ---- what the history says the store holds ----
Prefix(n) == SubSeq(log, 1, n)
KeysIn(q) == {q[j].Key : j \in DOMAIN q}
DistinctKeys(q) == \A a, b \in DOMAIN q : a # b => q[a].Key # q[b].Key
LastVal(q, k) == q[CHOOSE j \in DOMAIN q : q[j].Key = k /\ \A h \in DOMAIN q : h > j => q[h].Key # k].Val
Without(q, k) == SelectSeq(q, LAMBDA e : e.Key # k)
Moved(q, kv) == Without(q, kv.Key) \o <<kv>>

\* A key that is set again moves to the end.
RECURSIVE MoveToEndOrder(_)
MoveToEndOrder(q) ==
    IF q = <<>> THEN <<>>
    ELSE Moved(MoveToEndOrder(SubSeq(q, 1, Len(q) - 1)), q[Len(q)])

\* A key that is set again keeps its place.
RECURSIVE FirstWriteOrder(_)
FirstWriteOrder(q) ==
    IF q = <<>> THEN <<>>
    ELSE LET r == FirstWriteOrder(SubSeq(q, 1, Len(q) - 1))
             kv == q[Len(q)]
         IN  IF kv.Key \in KeysIn(r)
                THEN [j \in DOMAIN r |-> IF r[j].Key = kv.Key THEN kv ELSE r[j]]
                ELSE Append(r, kv)

\* The slice of part_001, in the channel or in the hands of a caller.
TheSlice ==
    IF c # <<>> THEN c[1]
    ELSE s[CHOOSE p \in Procs : pc[p] \in {"ChanSet_body", "ChanSet_send", "ChanGet_body",
                                           "ChanGetAllSlice_body", "ChanGetAllMap_body", "ChanRead_send"}]

\* What GetAllSlice can return in the current state of the store.
CurSlices ==
    IF impl = "map" THEN {GetAllSlice(data, keys) : keys \in orderedKeys(data)}
    ELSE {ChanGetAllSlice(TheSlice)}

Returns(p, name) == pc[p] = "ret" /\ op[p].name = name
OnStore(p, name) == Returns(p, name) /\ op[p].d
OnNil(p, name) == Returns(p, name) /\ ~op[p].d

\* ---- C1 ----
\* C1: after Sets on pairwise distinct keys, GetAllSlice returns one entry per
\* Set, in the order of the Sets, each with the value that was set.
C1_CallOrder ==
    \A p \in Procs :
        (OnStore(p, "GetAllSlice") /\ DistinctKeys(Prefix(seen[p])))
            => ret[p].kvs = Prefix(seen[p])

C1_Witness ==
    \E p \in Procs :
        /\ OnStore(p, "GetAllSlice")
        /\ seen[p] >= 3
        /\ DistinctKeys(Prefix(seen[p]))

\* ---- C2 ----
\* C2 as stated: a key that is set again keeps its place in GetAllSlice and
\* takes the new value.
C2_FirstWriteWins ==
    \A p \in Procs :
        OnStore(p, "GetAllSlice") => ret[p].kvs = FirstWriteOrder(Prefix(seen[p]))

\* C2 as amended: a key that is set again takes the new value and moves to the
\* end of what GetAllSlice returns: GetAllSlice is the history with every key
\* at the place of its last Set.
C2_LastWriteOrder ==
    \A p \in Procs :
        OnStore(p, "GetAllSlice") => ret[p].kvs = MoveToEndOrder(Prefix(seen[p]))

C2_Witness ==
    \E p \in Procs :
        /\ OnStore(p, "GetAllSlice")
        /\ \E a, b, h \in 1..seen[p] :
              /\ a < b /\ b < h
              /\ log[a].Key = log[h].Key
              /\ log[b].Key # log[a].Key
              /\ log[a].Val # log[h].Val

\* ---- C3 ----
\* C3: a Set on a key that is present makes it the last entry of GetAllSlice
\* with the new value; the other entries keep their values and their order,
\* and the number of entries stays the same.
C3_MoveToEnd ==
    [][(Len(log') = Len(log) + 1 /\ log'[Len(log')].Key \in KeysIn(log))
          => CurSlices' = {Moved(q, log'[Len(log')]) : q \in CurSlices}]_vars

C3_Witness ==
    /\ Len(log) >= 4
    /\ DistinctKeys(Prefix(3))
    /\ log[4].Key = log[1].Key
    /\ log[4].Val # log[1].Val
    /\ \A q \in CurSlices : Len(q) = 3 /\ q[3] = log[4]

\* ---- C4 ----
\* C4: in every state, whatever the callers are doing, GetAllSlice holds no
\* key twice and has as many entries as there are keys that have been set;
\* so has every result GetAllSlice has returned.
C4_KeyUniqueness ==
    /\ \A q \in CurSlices : DistinctKeys(q) /\ Len(q) = Cardinality(KeysIn(log))
    /\ \A p \in Procs :
          OnStore(p, "GetAllSlice")
             => /\ DistinctKeys(ret[p].kvs)
                /\ Len(ret[p].kvs) = Cardinality(KeysIn(Prefix(seen[p])))

\* Two callers whose Sets of one key ran side by side.
C4_Witness ==
    /\ OnStore(1, "Set") /\ OnStore(2, "Set")
    /\ op[1].key = op[2].key
    /\ floor[1] = 0 /\ floor[2] = 0
    /\ Len(log) = 2

\* ---- C5 ----
\* C5: once the N writers have made their M Sets each, on keys of their own,
\* the map snapshot has N*M entries and every key has the value its writer set.
C5_NoLostUpdates ==
    \A p \in Procs :
        (OnStore(p, "GetAll") \/ OnStore(p, "GetAllMap"))
            => /\ Cardinality(DOMAIN ret[p].m) = Cardinality(Procs) * SetsPerWriter
               /\ \A w \in Procs : KeysOf(w) \subseteq DOMAIN ret[p].m
               /\ \A j \in 1..Len(log) : ret[p].m[log[j].Key] = log[j].Val

\* The snapshot, after Sets of the two writers that took turns.
C5_Witness ==
    /\ OnStore(1, "GetAll") \/ OnStore(1, "GetAllMap")
    /\ Len(log) = Cardinality(Procs) * SetsPerWriter
    /\ log[1].Key \in KeysOf(2)
    /\ log[2].Key \in KeysOf(1)
    /\ log[3].Key \in KeysOf(2)

\* ---- C6 ----
\* C6: a read sees every Set that had returned when the read was called: Get
\* returns the value of the last Set of the key, the snapshots hold for every
\* key the value of its last Set.
C6_ReadYourWrites ==
    \A p \in Procs :
        LET q == Prefix(seen[p])
            r == ret[p]
        IN  /\ OnStore(p, "Get") =>
                 /\ floor[p] <= seen[p]
                 /\ IF op[p].key \in KeysIn(q)
                       THEN r.val = LastVal(q, op[p].key) /\ (IF impl = "map" THEN r.ok ELSE r.err = "nil")
                       ELSE IF impl = "map" THEN ~r.ok ELSE r.err = "ErrNotFound"
            /\ (OnStore(p, "GetAll") \/ OnStore(p, "GetAllMap")) =>
                 /\ floor[p] <= seen[p]
                 /\ DOMAIN r.m = KeysIn(q)
                 /\ \A k \in KeysIn(q) : r.m[k] = LastVal(q, k)
            /\ OnStore(p, "GetAllSlice") =>
                 /\ floor[p] <= seen[p]
                 /\ {r.kvs[j] : j \in DOMAIN r.kvs} = {KeyVal(k, LastVal(q, k)) : k \in KeysIn(q)}

\* A Get of a key that was set twice, called after the second Set returned.
C6_Witness ==
    \E p \in Procs :
        /\ OnStore(p, "Get")
        /\ floor[p] >= 2
        /\ log[1].Key = op[p].key
        /\ log[2].Key = op[p].key
        /\ log[1].Val # log[2].Val
        /\ ret[p].val = log[2].Val

\* ---- C7 ----
\* C7: Set on a nil *Data returns ErrNilData (data.go) or ErrNoData (part_001)
\* at once and leaves the store as it was.
C7_SetOnNil ==
    [][\A p \in Procs :
          (pc[p] = "idle" /\ pc'[p] # "idle" /\ op'[p].name = "Set" /\ ~op'[p].d)
             => /\ pc'[p] = "ret"
                /\ ret'[p].err = (IF impl = "map" THEN "ErrNilData" ELSE "ErrNoData")
                /\ UNCHANGED <<data, order, mtx, c, s, log>>]_vars

C7_Witness ==
    \E p \in Procs :
        /\ OnNil(p, "Set")
        /\ ret[p].err \in {"ErrNilData", "ErrNoData"}
        /\ Len(log) >= 1

\* ---- C8 ----
\* C8 as stated: Get on a nil *Data fails with the no-store error, whatever the
\* key, and Get on a store never does.
C8_GetOnNilFails ==
    \A p \in Procs :
        Returns(p, "Get") => (ret[p].err \in {"ErrNilData", "ErrNoData"} <=> ~op[p].d)

\* C8 as amended: in part_001 Get on a nil *Data fails with ErrNoData, whatever
\* the key, and Get on a store never does; in data.go Get has no error to
\* return, and on a nil *Data it returns ("", false), which is what it returns
\* on a store for a key that is not there.
C8_GetOnNil ==
    \A p \in Procs :
        Returns(p, "Get") =>
            IF impl = "chan"
               THEN ret[p].err = "ErrNoData" <=> ~op[p].d
               ELSE /\ ret[p].err = "nil"
                    /\ ~op[p].d => ret[p] = RetOk(Zero, FALSE)
                    /\ (op[p].d /\ op[p].key \notin KeysIn(Prefix(seen[p]))) => ret[p] = RetOk(Zero, FALSE)

\* Get on a nil *Data of a key that is in the store.
C8_Witness ==
    \E p \in Procs :
        /\ OnNil(p, "Get")
        /\ op[p].key \in KeysIn(log)

\* ---- C9 ----
\* C9: Get on a store reports a key as not found if and only if no Set of the
\* key has taken place; a key set to the zero value is found.
C9_NotFoundIff ==
    \A p \in Procs :
        OnStore(p, "Get") =>
            /\ (IF impl = "map" THEN ~ret[p].ok ELSE ret[p].err = "ErrNotFound")
                  <=> op[p].key \notin KeysIn(Prefix(seen[p]))
            /\ impl = "chan" => ret[p].err \in {"nil", "ErrNotFound"}

\* A Get of a key whose value is the zero value, set over a value that is not.
C9_Witness ==
    \E p \in Procs :
        /\ OnStore(p, "Get")
        /\ seen[p] >= 2
        /\ log[1] = KeyVal(op[p].key, 1)
        /\ log[2] = KeyVal(op[p].key, Zero)
        /\ ret[p].val = Zero
        /\ IF impl = "map" THEN ret[p].ok ELSE ret[p].err = "nil"

\* ---- C10 ----
\* C10: GetDefault returns no error; it returns the value of the last Set of
\* the key when the receiver is a store that has the key, the default value
\* when the key was never set or the receiver is nil.
C10_GetDefault ==
    \A p \in Procs :
        Returns(p, "GetDefault") =>
            /\ ret[p].err = "nil"
            /\ ret[p].val = IF op[p].d /\ op[p].key \in KeysIn(Prefix(seen[p]))
                               THEN LastVal(Prefix(seen[p]), op[p].key)
                               ELSE op[p].val

\* GetDefault of a key whose value is the zero value, with another default.
C10_Witness ==
    \E p \in Procs :
        /\ OnStore(p, "GetDefault")
        /\ op[p].key \in KeysIn(Prefix(seen[p]))
        /\ op[p].val # Zero
        /\ ret[p].val = Zero

InSetCS(p) == pc[p] \in {"MapSet_write", "MapSet_incr", "MapSet_unlock", "ChanSet_body", "ChanSet_send"}

\* The critical section of a read: from the RLock (the receive of the slice)
\* to the RUnlock (the send of the slice).
InReadCS(p) ==
    pc[p] \in {"MapGet_read", "MapGetDefault_read", "MapGetAll_read", "MapGetAllSlice_read",
               "MapRead_runlock", "MapWalk_keys", "MapWalk_range", "MapWalk_fn", "MapWalk_runlock",
               "ChanGet_body", "ChanGetAllSlice_body", "ChanGetAllMap_body", "ChanRead_send"}

Visited(p) == [j \in DOMAIN visited[p] |-> KeyVal(visited[p][j].Key, visited[p][j].Val)]

\* C13: Walk on a Data calls the visitor with the entries in the order of
\* GetAllSlice, once each; when every call returns nil it has called it with
\* every entry and returns nil; when a call returns an error no call follows
\* it and Walk returns that error.
C13_Walk ==
    \A p \in Procs :
        pc[p] = "MapWalk_ret" =>
            LET entries == MoveToEndOrder(Prefix(seen[p]))
                n == Len(visited[p])
            IN  /\ n <= Len(entries)
                /\ Visited(p) = SubSeq(entries, 1, n)
                /\ \A j \in 1..(n - 1) : visited[p][j].err = "nil"
                /\ IF ret[p].err = "nil"
                      THEN n = Len(entries) /\ (n > 0 => visited[p][n].err = "nil")
                      ELSE n > 0 /\ visited[p][n].err = ret[p].err /\ ret[p].err = "ErrVisitor"

\* A Walk of two entries, one of them set twice, that the visitor stopped at
\* the first entry.
C13_Witness ==
    \E p \in Procs :
        /\ pc[p] = "MapWalk_ret"
        /\ seen[p] = 3
        /\ Len(MoveToEndOrder(Prefix(seen[p]))) = 2
        /\ Len(visited[p]) = 1
        /\ ret[p].err = "ErrVisitor"

\* ---- C14 ----
\* C14: Walk on a nil *Data returns ErrNilData and makes no call of the
\* visitor.
C14_WalkOnNil ==
    \A p \in Procs :
        (op[p].name = "Walk" /\ ~op[p].d) =>
            /\ pc[p] = "ret"
            /\ ret[p].err = "ErrNilData"
            /\ visited[p] = <<>>

\* Walk on a nil *Data while the Data has entries.
C14_Witness ==
    \E p \in Procs :
        /\ OnNil(p, "Walk")
        /\ Len(log) >= 2

\* ---- C17 ----
\* C17: while the visitor of a Walk runs, the Walk does not hold the lock of
\* the Data, and a Set that waits at the lock can take it.
C17_VisitorOutsideLock ==
    \A p \in Procs :
        (pc[p] = "MapWalk_fn" /\ stack[p] = <<>>) =>
            /\ p \notin mtx.r
            /\ \A q \in Procs : (q # p /\ pc[q] = "MapSet_lock") => ENABLED MapSet_lock(q)

\* ---- C18 ----
\* A caller that is in a call and waits where it cannot go on.
Blocked(p) ==
    \/ pc[p] = "MapSet_lock" /\ ~ENABLED MapSet_lock(p)
    \/ pc[p] = "MapWalk_rlock" /\ ~ENABLED MapWalk_rlock(p)

\* C18: in no state is every caller blocked.
C18_SomeCallerRuns == \E p \in Procs : ~Blocked(p)

\* ---- C12 ----
\* What the caller reads in the snapshot it has kept.
View(p) ==
    IF snap[p].kind = "slice" /\ snap[p].shared
       THEN [j \in DOMAIN snap[p].kvs |-> TheSlice.arr[j]]
       ELSE IF snap[p].kind = "slice" THEN snap[p].kvs ELSE snap[p].m

\* What the Data holds.
Held == IF impl = "map" THEN data ELSE SubSeq(TheSlice.arr, 1, TheSlice.len)

\* C12: a step of a method of the Data, of any caller, changes no snapshot
\* that a caller has kept (its keys, values, order and length), and a caller
\* that writes to its snapshot changes neither what the Data holds nor the
\* snapshot of another caller.
C12_Independence ==
    [][/\ pc' # pc =>
             \A p \in Procs :
                 (snap[p].kind # "none" /\ snap'[p].kind # "none" /\ pc[p] # "ret") => View(p)' = View(p)
       /\ pc' = pc =>
             /\ Held' = Held
             /\ \A p \in Procs : snap'[p] = snap[p] => View(p)' = View(p)]_vars

\* A caller has kept a slice of two entries, has written to it, and a Set of
\* the first of the two keys, made after the slice was returned, has moved
\* the entry of the key in the Data.
C12_Witness ==
    \E p \in Procs :
        /\ snap[p].kind = "slice"
        /\ Len(snap[p].kvs) = 2
        /\ snap[p].kvs[2].Val = Scribble
        /\ Len(log) = 3
        /\ log[3].Key = snap[p].kvs[1].Key
        /\ \A q \in Procs : pc[q] = "idle"

\* ---- C15 ----
\* The fields and the history of the Data sid.
StateOf(sid) == IF sid = sel THEN Fields ELSE heap[sid]

\* The contexts from i up to context.Background() that New has made.
RECURSIVE News(_, _)
News(cs, i) ==
    IF i = 0 THEN {} ELSE (IF cs[i].val # 0 THEN {i} ELSE {}) \cup News(cs, cs[i].parent)

\* C15: every New makes a Data of its own, also on a context that has a Data
\* already; no step of a call changes the fields of a Data other than the
\* receiver of the call; From on a context derived from the inner of two
\* nested News returns the Data of the inner New.
C15_NestedNew ==
    [][/\ \A i, j \in DOMAIN ctxs' :
             (i # j /\ ctxs'[i].val # 0 /\ ctxs'[j].val # 0) => ctxs'[i].val # ctxs'[j].val
       /\ \A sid \in Datas : sid # rcv'.d => StateOf(sid)' = StateOf(sid)
       /\ \A i \in DOMAIN ctxs' :
             Cardinality(News(ctxs', i)) >= 2 =>
                 /\ From(ctxs', i) = owner'[i]
                 /\ From(ctxs', i) # owner'[CHOOSE j \in News(ctxs', i) : \A h \in News(ctxs', i) : j <= h]]_vars

\* Two nested News, a context derived from the inner one, and Sets through
\* From that have given the inner Data entries and the outer Data none.
C15_Witness ==
    /\ Cardinality(Datas) = 2
    /\ \E i \in DOMAIN ctxs : ctxs[i].val = 0 /\ Cardinality(News(ctxs, i)) = 2
    /\ pc[1] = "idle"
    /\ Len(StateOf(1).log) = 0
    /\ Len(StateOf(2).log) = 2

\* ---- C16 ----
\* C16: From on the context that New returned, and on every context derived
\* from it, returns the Data that New returned, and nil on a context that no
\* New is behind; the calls of the caller act on the Data that From returned,
\* so GetAllSlice on the Data, through From or through what New returned,
\* returns what the Sets through From have stored.
C16_FromReturnsTheData ==
    /\ \A i \in DOMAIN ctxs : From(ctxs, i) = owner[i]
    /\ rcv.from => \E i \in DOMAIN ctxs : rcv.d = owner[i]
    /\ rcv.d # 0 => sel = rcv.d
    /\ pc[1] # "idle" => (op[1].d <=> rcv.d # 0)
    /\ OnStore(1, "GetAllSlice") => ret[1].kvs = MoveToEndOrder(Prefix(seen[1]))

\* The caller reads, through the *Data that New returned, the entry that was
\* set twice through From; a context of context.WithCancel is derived
\* from the context of that New.
C16_Witness ==
    /\ OnStore(1, "GetAllSlice")
    /\ ~rcv.from
    /\ seen[1] = 2
    /\ Len(ret[1].kvs) = 1
    /\ \E i \in DOMAIN ctxs : ctxs[i].val = 0 /\ owner[i] = rcv.d

\* ---- C20 ----
\* C20: GetAs of a key that the Data has returns no error and leaves the
\* value of the key in the destination when the type of the value is the type
\* of the destination; with any other type, one with the same fields
\* included, it returns ErrIncompatibleType and leaves the destination as it
\* was.
C20_GetAs ==
    \A p \in Procs :
        (OnStore(p, "GetAs") /\ op[p].key \in KeysIn(Prefix(seen[p]))) =>
            LET val == LastVal(Prefix(seen[p]), op[p].key)
                dst == op[p].val
            IN  IF val.type = dst.type
                   THEN ret[p].err = "nil" /\ ret[p].val = val
                   ELSE ret[p].err = "ErrIncompatibleType" /\ ret[p].val = dst

\* GetAs of a foo into a bar, which has the same fields: the destination
\* keeps the field it had.
C20_Witness ==
    \E p \in Procs :
        /\ OnStore(p, "GetAs")
        /\ op[p].key \in KeysIn(Prefix(seen[p]))
        /\ LastVal(Prefix(seen[p]), op[p].key) = Typed("foo", 2)
        /\ op[p].val = Typed("bar", Zero)
        /\ ret[p].val = Typed("bar", Zero)

\* ---- C21 ----
\* The Sets of data.go that have written their pair and not yet counted it:
\* between d.data[key] = pair{value, d.order} and d.order++, under the lock.
Uncounted == Cardinality({p \in Procs : pc[p] = "MapSet_incr"})

\* What C21 says of a state of the Data of data.go. While no Set holds the
\* lock, order is the number of Sets that have completed and every pair has
\* an i below order; a Set that holds the lock is at most one write ahead of
\* the counter. In every state the i of the pairs are pairwise distinct, so
\* orderedKeys has one result.
OrderCounts ==
    impl = "map" =>
        /\ order = Len(log) - Uncounted
        /\ mtx.w = NoProc => (order = Returned /\ \A k \in DOMAIN data : data[k].i < order)
        /\ \A k \in DOMAIN data : data[k].i < order + Uncounted
        /\ \A j, k \in DOMAIN data : j # k => data[j].i # data[k].i
        /\ Cardinality(orderedKeys(data)) = 1

Holders ==
    {p \in Procs : pc[p] \in {"ChanSet_body", "ChanSet_send", "ChanGet_body", "ChanGetAllSlice_body",
                              "ChanGetAllMap_body", "ChanGetAs_body", "ChanRead_send"}}

\* The entries of a slice.
Entries(sl) == SubSeq(sl.arr, 1, sl.len)

\* C22: the slices in d.c and the callers that hold the slice are one in
\* all, so d.c is empty when a caller comes to send the slice back and the
\* send does not block; the slice in d.c has the entries of all the Sets that
\* have sent it back, each key at the place of its last Set.
C22_Token ==
    impl = "chan" =>
        /\ Len(c) + Cardinality(Holders) = 1
        /\ Len(c) <= ChanCap
        /\ \A p \in Procs : pc[p] \in {"ChanSet_send", "ChanRead_send"} => Len(c) < ChanCap
        /\ \A p \in Holders : s[p] # NoSlice
        /\ c # <<>> => Entries(c[1]) = MoveToEndOrder(log)
        /\ \A p \in Procs : pc[p] = "ChanSet_send" => Entries(s[p]) = MoveToEndOrder(log)

\* A Set of a key that the slice has holds the slice, with the entry moved to
\* the end, while the other caller waits to receive it.
C22_Witness ==
    \E p, q \in Procs :
        /\ pc[p] = "ChanSet_send"
        /\ Len(log) = 2
        /\ log[1].Key = log[2].Key
        /\ pc[q] \in {"ChanSet_recv", "ChanGet_recv", "ChanGetAllSlice_recv", "ChanGetAllMap_recv"}
        /\ c = <<>>

\* ---- C23 ----
\* C23: after the same Sets on a Data of data.go and on a Data of part_001,
\* GetAllSlice returns the same entries in the same order from both, GetAll
\* returns the map that GetAllMap returns, and the Sets return the same.
C23_SameObservations ==
    (\A p \in Procs : pc[p] = "ret") =>
        /\ ret[1].err = ret[2].err
        /\ ret[1].kvs = ret[2].kvs
        /\ ret[1].m = ret[2].m
        /\ op[1].name = "GetAllSlice" => Len(ret[1].kvs) = Cardinality({log[j].Key : j \in DOMAIN log})

\* GetAllSlice has returned from both Datas after three Sets on two keys with
\* two values.
C23_Witness ==
    /\ impl = "both"
    /\ \A p \in Procs : pc[p] = "ret" /\ op[p].name = "GetAllSlice"
    /\ Len(log) = 6
    /\ Len(ret[2].kvs) = 2
    /\ ret[2].kvs[1].Val # ret[2].kvs[2].Val
    /\ log[1].Key = ret[2].kvs[2].Key

\* ---- C24 ----
\* Callers p and q have both returned from a read of the Data, and no Set has
\* taken effect between the two reads.
SameMoment(p, q) == pc[p] = "ret" /\ pc[q] = "ret" /\ op[p].d /\ op[q].d /\ seen[p] = seen[q]

\* What Get reports: whether it found the key.
Found(p) == IF impl = "map" THEN ret[p].ok ELSE ret[p].err = "nil"

\* C24: of reads of one Data with no Set between them, the map of GetAll or
\* GetAllMap has as many keys as the slice of GetAllSlice has entries and
\* sends the key of every entry to the value of the entry; Get finds a key if
\* and only if the slice has an entry of it and the map has the key, and
\* returns the value they have for it.
C24_SnapshotsAgree ==
    \A p, q \in Procs :
        SameMoment(p, q) =>
            /\ (op[p].name = "GetAllSlice" /\ op[q].name \in {"GetAll", "GetAllMap"}) =>
                  /\ Len(ret[p].kvs) = Cardinality(DOMAIN ret[q].m)
                  /\ \A j \in DOMAIN ret[p].kvs :
                        /\ ret[p].kvs[j].Key \in DOMAIN ret[q].m
                        /\ ret[q].m[ret[p].kvs[j].Key] = ret[p].kvs[j].Val
            /\ (op[p].name = "Get" /\ op[q].name = "GetAllSlice") =>
                  /\ Found(p) <=> op[p].key \in KeysIn(ret[q].kvs)
                  /\ Found(p) => \E j \in DOMAIN ret[q].kvs : ret[q].kvs[j] = KeyVal(op[p].key, ret[p].val)
            /\ (op[p].name = "Get" /\ op[q].name \in {"GetAll", "GetAllMap"}) =>
                  /\ Found(p) <=> op[p].key \in DOMAIN ret[q].m
                  /\ Found(p) => ret[q].m[op[p].key] = ret[p].val

\* GetAllSlice and the map form have returned, both taken after two Sets on
\* two keys.
C24_Witness ==
    \E p, q \in Procs :
        /\ SameMoment(p, q)
        /\ op[p].name = "GetAllSlice"
        /\ op[q].name \in {"GetAll", "GetAllMap"}
        /\ seen[p] = 2
        /\ Len(ret[p].kvs) = 2

\* ---- C25 ----
ReadNames == {"Get", "GetDefault", "GetAll", "GetAllMap", "GetAllSlice", "Walk"}

\* The step is a step of a read of caller p: the call, a step of the method
\* or of the visitor, or the return.
ReadStep(p) ==
    /\ pc'[p] # pc[p]
    /\ (IF pc[p] = "idle" THEN op'[p].name ELSE op[p].name) \in ReadNames

\* C25: a step of Get, GetDefault, GetAll, GetAllMap, GetAllSlice or Walk
\* changes neither the entries of the Data, their values and their order, nor
\* order, nor what GetAllSlice can return; two GetAllSlice with no Set
\* between them return the same.
C25_ReadsChangeNothing ==
    [][/\ \A p \in Procs :
             ReadStep(p) =>
                 /\ Held' = Held
                 /\ order' = order
                 /\ CurSlices' = CurSlices
                 /\ log' = log
       /\ \A p, q \in Procs :
             (OnStore(p, "GetAllSlice")' /\ OnStore(q, "GetAllSlice")' /\ seen'[p] = seen'[q])
                 => ret'[p].kvs = ret'[q].kvs]_vars

\* Two GetAllSlice of two entries have returned with no Set between them.
C25_Witness ==
    \E p, q \in Procs :
        /\ p # q
        /\ OnStore(p, "GetAllSlice")
        /\ OnStore(q, "GetAllSlice")
        /\ seen[p] = 2
        /\ seen[q] = 2
        /\ Len(ret[p].kvs) = 2

====
